---------------------------- MODULE Spec2Model ----------------------------
(***************************************************************************)
(* A model of the adaptive range downloader of main.go:                    *)
(*   - the capability probe (getFileSize),                                 *)
(*   - the chunk planner and the worker pool of Download,                  *)
(*   - the segment fetcher (downloadChunk),                                *)
(*   - the adaptive concurrency controller (calculateOptimalConnections),  *)
(*   - the single-stream fallback (downloadSingleConnection),              *)
(*   - the progress reporter (reportProgress).                             *)
(* Byte counts are scaled: the segment length (1 MiB) and the read buffer  *)
(* (32 KiB) are both one byte, and a file holds at most MaxFileSize bytes. *)
(* Durations are exact nanosecond values, kept as a (seconds, nanoseconds) *)
(* pair.  The worker pool is explored against two networks (env): "any",   *)
(* where every ranged exchange may fail in every way and deliver a body of *)
(* any length, for files of at most MaxFullSize bytes; and "clean", where  *)
(* a ranged request is either refused with a non-206 status or answered    *)
(* with exactly the asked range, quickly, for files up to MaxFileSize.     *)
(* In Spec a segment fetch is one step (Fetch); SpecFetch runs it          *)
(* statement by statement, for smaller files and pools.                    *)
(***************************************************************************)
EXTENDS Integers, Sequences, FiniteSets, Bags

(***************************************************************************)
(* Bounds of the model.                                                    *)
(***************************************************************************)
MaxFileSize == 6
MaxFullSize == 2
MaxReads == 2
MaxPlanSize == 12
MaxPlanChunk == 5
MaxHistory == 3
CtlWorkers == 2
MaxFetchSize == 3

(***************************************************************************)
(* Program constants.                                                      *)
(***************************************************************************)
DefaultChunkSize == 1
BufSize == 1
MaxConnections == 16
MinConnections == 2
StartConnections == 4
StatusOK == 200
StatusPartialContent == 206
AdaptEvery == 5
RecentCount == 3
FastSeconds == 2
SlowSeconds == 5
NanosPerSecond == 1000000000

(***************************************************************************)
(* time.Duration: an integer count of nanoseconds, here the pair           *)
(* s * NanosPerSecond + ns with 0 <= ns < NanosPerSecond.                  *)
(***************************************************************************)
Dur(s, ns) == [s |-> s, ns |-> ns]

DurZero == Dur(0, 0)

\* a + b on time.Duration
DurAdd(a, b) ==
    LET n == a.ns + b.ns
    IN  IF n >= NanosPerSecond
        THEN Dur(a.s + b.s + 1, n - NanosPerSecond)
        ELSE Dur(a.s + b.s, n)

\* a / time.Duration(k): Go's integer division, truncating (a >= 0, k > 0)
DurDiv(a, k) ==
    LET r  == a.s % k
        q  == NanosPerSecond \div k
        rr == NanosPerSecond % k
    IN  Dur(a.s \div k, r * q + ((r * rr + a.ns) \div k))

\* a < b and a > b on time.Duration
DurLess(a, b) == a.s < b.s \/ (a.s = b.s /\ a.ns < b.ns)

DurGreater(a, b) == DurLess(b, a)

\* k * time.Second
Seconds(k) == Dur(k, 0)

(***************************************************************************)
(* The chunk planner: the loop of Download that cuts [0, FileSize) into    *)
(* ChunkInfo{Start, End, Index}.                                           *)
(***************************************************************************)
\* the planner without the clamp of the last chunk's end
RECURSIVE PlanFromNoClamp(_, _, _, _)
PlanFromNoClamp(i, size, chunkSize, acc) ==
    IF i < size
    THEN PlanFromNoClamp(i + chunkSize, size, chunkSize,
                         Append(acc, [Start |-> i, End |-> i + chunkSize - 1,
                                      Index |-> Len(acc)]))
    ELSE acc

\* the planner cutting whole chunks only: the loop runs while a full chunk fits
RECURSIVE PlanFromWholeChunks(_, _, _, _)
PlanFromWholeChunks(i, size, chunkSize, acc) ==
    IF i + chunkSize <= size
    THEN PlanFromWholeChunks(i + chunkSize, size, chunkSize,
                             Append(acc, [Start |-> i, End |-> i + chunkSize - 1,
                                          Index |-> Len(acc)]))
    ELSE acc

RECURSIVE PlanFrom(_, _, _, _)
PlanFrom(i, size, chunkSize, acc) ==
    IF i < size
    THEN LET end == IF i + chunkSize - 1 >= size
                    THEN size - 1
                    ELSE i + chunkSize - 1
         IN  PlanFrom(i + chunkSize, size, chunkSize,
                      Append(acc, [Start |-> i, End |-> end, Index |-> Len(acc)]))
    ELSE acc

PlanChunks(size, chunkSize) == PlanFrom(0, size, chunkSize, << >>)


(***************************************************************************)
(* State.                                                                  *)
(*   FileSize, ChunkSize, CurrentConnections: fields of AdaptiveDownloader *)
(*   BytesDownloaded, ChunkTimes: fields of DownloadStats                  *)
(*   statsMu, connMu: whether d.Stats.mu and d.mu are held                 *)
(*   dpc: position of the goroutine running Download                       *)
(*   supportsRanges: the probe's answer                                    *)
(*   result: what Download returned                                        *)
(*   chunks: the planned ChunkInfo list                                    *)
(*   chunkChan: the chunks still queued in the (closed) channel            *)
(*   errChan, errCap: the buffered error channel and its capacity          *)
(*   spawnI: the loop variable i of the worker-spawning loop               *)
(*   wg: the WaitGroup counter                                             *)
(*   workers: the worker goroutines started so far, a bag of their states  *)
(*             (the goroutines are anonymous closures: which one is in a   *)
(*             state is no part of the program's state)                    *)
(*   connSeen: every value CurrentConnections has held (what a read that   *)
(*             races with the controller's writes may observe)             *)
(*   env: the network the transfer runs against                            *)
(*   sent: every error sent on errChan, in send order (history)            *)
(*   failedChunks: indices of the chunks whose downloadChunk returned an   *)
(*             error (history)                                             *)
(*   refused: indices of the chunks whose ranged request was answered with *)
(*             a status other than 206 (history)                           *)
(*   probed: the response the HEAD probe got (history)                     *)
(*   entered: the paths Download entered after the probe (history)         *)
(*   requests: the HTTP requests issued so far: HEAD probes, ranged GETs   *)
(*             and whole-body GETs (history)                               *)
(*   file: the output file: "absent", "created" (os.Create done) or       *)
(*             "sized" (Truncate(FileSize) done)                           *)
(*   reporter: the reportProgress goroutine: "none" (not started),        *)
(*             "running" or "exited"                                       *)
(*   written: the body bytes written to the output file so far             *)
(*   fb: how the whole-body GET of the fallback went: its status, the      *)
(*             bytes read from its body, how the stream ended, whether a   *)
(*             file.Write failed (history)                                 *)
(*   taken: the indices of the chunks received from chunkChan, each as     *)
(*             often as it was received (history)                          *)
(*   fetched: the indices of the chunks whose downloadChunk has returned,  *)
(*             each as often as a call for it returned (history)           *)
(*   evaluated: the indices of the chunks after which the worker called    *)
(*             calculateOptimalConnections, each as often as it did        *)
(*             (history)                                                   *)
(***************************************************************************)
VARIABLES FileSize, ChunkSize, CurrentConnections, BytesDownloaded, ChunkTimes,
          statsMu, connMu, dpc, supportsRanges, result, chunks, chunkChan,
          errChan, errCap, spawnI, wg, workers, connSeen, env, sent,
          failedChunks, refused, probed, entered, requests, file, reporter,
          written, fb, taken, fetched, evaluated

vars == << FileSize, ChunkSize, CurrentConnections, BytesDownloaded, ChunkTimes,
           statsMu, connMu, dpc, supportsRanges, result, chunks, chunkChan,
           errChan, errCap, spawnI, wg, workers, connSeen, env, sent,
           failedChunks, refused, probed, entered, requests, file, reporter,
           written, fb, taken, fetched, evaluated >>

\* what the transfer has done to the network and the disk
obsVars == << probed, entered, requests, file, reporter, written, fb >>

\* the fields of the downloader and its stats
fieldVars == << FileSize, ChunkSize, CurrentConnections, BytesDownloaded,
                ChunkTimes, connSeen, env >>

\* what the workers have done to the planned chunks
histVars == << taken, fetched, evaluated >>

\* the state of the pool
poolVars == << chunks, chunkChan, errChan, errCap, spawnI, wg, workers, sent,
               failedChunks, refused >>

(***************************************************************************)
(* Values.                                                                 *)
(***************************************************************************)
NoResult == [status |-> "none", chunk |-> -1, cause |-> "none"]

Success == [status |-> "ok", chunk |-> -1, cause |-> "none"]

\* an error returned before any chunk is fetched
Failure(cause) == [status |-> "error", chunk |-> -1, cause |-> cause]

\* fmt.Errorf("chunk %d failed: %v", chunk.Index, err)
ChunkError(index, cause) == [status |-> "error", chunk |-> index, cause |-> cause]

\* a goroutine of the pool: where it is, the chunk it holds, the error its
\* fetch returned, its local avgTime
Worker(pc, chunk, err, avg) ==
    [pc |-> pc, chunk |-> chunk, err |-> err, avg |-> avg]

FreshWorker == Worker("recv", -1, "none", DurZero)

ExitedWorker == Worker("done", -1, "none", DurZero)

\* the durations a segment fetch may take: a fast one and a slow one
FetchDurations == {Seconds(1), Seconds(6)}

\* no HEAD response yet
NoResponse ==
    [reached |-> FALSE, status |-> 0,
     contentLength |-> [kind |-> "absent", n |-> 0], acceptRanges |-> ""]

NoRequests == [head |-> 0, ranged |-> 0, whole |-> 0]

\* no whole-body GET yet
NoStream == [status |-> 0, received |-> 0, end |-> "none", writeFailed |-> FALSE]

\* the networks, and the largest file each serves
Environments == {"any", "clean"}

MaxSize(e) == IF e = "any" THEN MaxFullSize ELSE MaxFileSize

(***************************************************************************)
(* NewAdaptiveDownloader: the state after construction, before Download.   *)
(***************************************************************************)
Init ==
    /\ env \in Environments
    /\ FileSize = 0
    /\ ChunkSize = DefaultChunkSize
    /\ CurrentConnections = StartConnections
    /\ BytesDownloaded = 0
    /\ ChunkTimes = << >>
    /\ statsMu = FALSE
    /\ connMu = FALSE
    /\ dpc = "start"
    /\ supportsRanges = FALSE
    /\ result = NoResult
    /\ chunks = << >>
    /\ chunkChan = << >>
    /\ errChan = << >>
    /\ errCap = 0
    /\ spawnI = 0
    /\ wg = 0
    /\ workers = EmptyBag
    /\ connSeen = {StartConnections}
    /\ sent = << >>
    /\ failedChunks = {}
    /\ refused = {}
    /\ probed = NoResponse
    /\ entered = {}
    /\ requests = NoRequests
    /\ file = "absent"
    /\ reporter = "none"
    /\ written = 0
    /\ fb = NoStream
    /\ taken = EmptyBag
    /\ fetched = EmptyBag
    /\ evaluated = EmptyBag

(***************************************************************************)
(* getFileSize: the HEAD probe.  A response is whether the server was      *)
(* reached, its status, its Content-Length header (absent, not a number,   *)
(* or a number n) and its Accept-Ranges header.                            *)
(***************************************************************************)
ContentLengths(e) ==
    {[kind |-> "absent", n |-> 0], [kind |-> "bad", n |-> 0]}
        \cup {[kind |-> "number", n |-> k] : k \in 0..MaxSize(e)}

ProbeResponses(e) ==
    [reached : BOOLEAN, status : {StatusOK, 404},
     contentLength : ContentLengths(e),
     acceptRanges : {"bytes", "none", ""}]

\* a probe that takes any Accept-Ranges header for range support
getFileSizeAnyAcceptRanges(resp, oldSize) ==
    IF ~resp.reached
    THEN [ranges |-> FALSE, err |-> "connect", size |-> oldSize]
    ELSE IF resp.status # StatusOK
    THEN [ranges |-> FALSE, err |-> "status", size |-> oldSize]
    ELSE IF resp.contentLength.kind = "absent"
    THEN [ranges |-> FALSE, err |-> "none", size |-> -1]
    ELSE IF resp.contentLength.kind = "bad"
    THEN [ranges |-> FALSE, err |-> "parse", size |-> oldSize]
    ELSE [ranges |-> resp.acceptRanges # "", err |-> "none",
          size |-> resp.contentLength.n]

\* a probe that reports range support without a Content-Length
getFileSizeRangesWithoutLength(resp, oldSize) ==
    IF ~resp.reached
    THEN [ranges |-> FALSE, err |-> "connect", size |-> oldSize]
    ELSE IF resp.status # StatusOK
    THEN [ranges |-> FALSE, err |-> "status", size |-> oldSize]
    ELSE IF resp.contentLength.kind = "absent"
    THEN [ranges |-> resp.acceptRanges = "bytes", err |-> "none", size |-> -1]
    ELSE IF resp.contentLength.kind = "bad"
    THEN [ranges |-> FALSE, err |-> "parse", size |-> oldSize]
    ELSE [ranges |-> resp.acceptRanges = "bytes", err |-> "none",
          size |-> resp.contentLength.n]

\* a probe without the status test
getFileSizeIgnoreStatus(resp, oldSize) ==
    IF ~resp.reached
    THEN [ranges |-> FALSE, err |-> "connect", size |-> oldSize]
    ELSE IF resp.contentLength.kind = "absent"
    THEN [ranges |-> FALSE, err |-> "none", size |-> -1]
    ELSE IF resp.contentLength.kind = "bad"
    THEN [ranges |-> FALSE, err |-> "parse", size |-> oldSize]
    ELSE [ranges |-> resp.acceptRanges = "bytes", err |-> "none",
          size |-> resp.contentLength.n]

\* what getFileSize returns and the FileSize it leaves, given the old FileSize
getFileSize(resp, oldSize) ==
    IF ~resp.reached
    THEN [ranges |-> FALSE, err |-> "connect", size |-> oldSize]
    ELSE IF resp.status # StatusOK
    THEN [ranges |-> FALSE, err |-> "status", size |-> oldSize]
    ELSE IF resp.contentLength.kind = "absent"
    THEN [ranges |-> FALSE, err |-> "none", size |-> -1]
    ELSE IF resp.contentLength.kind = "bad"
    THEN [ranges |-> FALSE, err |-> "parse", size |-> oldSize]
    ELSE [ranges |-> resp.acceptRanges = "bytes", err |-> "none",
          size |-> resp.contentLength.n]

\* if !supportsRanges { return d.downloadSingleConnection() }: where Download
\* continues after a probe without error
PathAfterProbe(ranges) == IF ranges THEN "create" ELSE "fallback"

\* the path a position of Download belongs to
PathOf(pc) == IF pc = "create" THEN "range" ELSE "fallback"

\* Download, up to the choice of the path
Probe ==
    /\ dpc = "start"
    /\ \E resp \in ProbeResponses(env) :
         LET r == getFileSize(resp, FileSize)
         IN  /\ FileSize' = r.size
             /\ supportsRanges' = r.ranges
             /\ probed' = resp
             /\ IF r.err # "none"
                THEN /\ result' = Failure(r.err)
                     /\ dpc' = "returned"
                     /\ entered' = entered
                ELSE /\ result' = result
                     /\ dpc' = PathAfterProbe(r.ranges)
                     /\ entered' = entered \cup {PathOf(dpc')}
    /\ requests' = [requests EXCEPT !.head = @ + 1]
    /\ UNCHANGED << ChunkSize, CurrentConnections, BytesDownloaded, ChunkTimes,
                    connSeen, env, statsMu, connMu >>
    /\ UNCHANGED poolVars
    /\ UNCHANGED << file, reporter, written, fb >>
    /\ UNCHANGED histVars

(***************************************************************************)
(* Download, range path: create and pre-size the output file, plan the     *)
(* chunks, queue them all and close the queue, make the error channel,     *)
(* start the progress reporter.                                            *)
(***************************************************************************)
CreateFile ==
    /\ dpc = "create"
    /\ \E io \in {"ok", "create", "truncate"} :
         IF io # "ok"
         THEN /\ result' = Failure(io)
              /\ dpc' = "returned"
              /\ file' = IF io = "create" THEN file ELSE "created"
              /\ UNCHANGED << chunks, chunkChan, errCap, spawnI, reporter >>
         ELSE /\ file' = "sized"
              /\ chunks' = PlanChunks(FileSize, ChunkSize)
              /\ chunkChan' = chunks'
              /\ errCap' = CurrentConnections
              /\ reporter' = "running"
              /\ spawnI' = 0
              /\ dpc' = "spawn"
              /\ result' = result
    /\ UNCHANGED << fieldVars, statsMu, connMu, supportsRanges, errChan, wg,
                    workers, sent, failedChunks, refused >>
    /\ UNCHANGED << probed, entered, requests, written, fb >>
    /\ UNCHANGED histVars

\* what the loop condition i < d.CurrentConnections may read: the read takes
\* no lock, so it races with the controller's writes and may observe any value
\* the field has held
LoopReads == connSeen

\* one turn of the spawning loop: test the condition; wg.Add(1) and go, or leave
Spawn ==
    /\ dpc = "spawn"
    /\ \E c \in LoopReads :
         IF spawnI < c
         THEN /\ wg' = wg + 1
              /\ workers' = workers (+) SetToBag({FreshWorker})
              /\ spawnI' = spawnI + 1
              /\ dpc' = dpc
         ELSE /\ dpc' = "wait"
              /\ UNCHANGED << wg, workers, spawnI >>
    /\ UNCHANGED << fieldVars, statsMu, connMu, supportsRanges, result, chunks,
                    chunkChan, errChan, errCap, sent, failedChunks, refused >>
    /\ UNCHANGED obsVars
    /\ UNCHANGED histVars

\* a select that takes the newest queued error
ReceivedLast(ch) == ch[Len(ch)]

\* the error the select after wg.Wait() takes from the channel
Received(ch) == Head(ch)

\* a Download that does not wait for the workers
WaitReturnNoWait ==
    /\ dpc = "wait"
    /\ IF Len(errChan) > 0
       THEN /\ result' = Received(errChan)
            /\ errChan' = Tail(errChan)
       ELSE /\ result' = Success
            /\ errChan' = errChan
    /\ dpc' = "returned"
    /\ UNCHANGED << fieldVars, statsMu, connMu, supportsRanges, chunks,
                    chunkChan, errCap, spawnI, wg, workers, sent, failedChunks, refused >>
    /\ UNCHANGED obsVars
    /\ UNCHANGED histVars

\* wg.Wait() returns; the select takes an error if one is queued
WaitReturn ==
    /\ dpc = "wait"
    /\ wg = 0
    /\ IF Len(errChan) > 0
       THEN /\ result' = Received(errChan)
            /\ errChan' = Tail(errChan)
       ELSE /\ result' = Success
            /\ errChan' = errChan
    /\ dpc' = "returned"
    /\ UNCHANGED << fieldVars, statsMu, connMu, supportsRanges, chunks,
                    chunkChan, errCap, spawnI, wg, workers, sent, failedChunks, refused >>
    /\ UNCHANGED obsVars
    /\ UNCHANGED histVars

(***************************************************************************)
(* The worker goroutines.                                                  *)
(***************************************************************************)
\* the states of the started workers
WorkerStates == BagToSet(workers)

\* the workers with one worker in state r moved to state q
SetWorker(r, q) == (workers (-) SetToBag({r})) (+) SetToBag({q})

\* a receive that leaves the chunk in the queue
RecvPeek(r) ==
    /\ r.pc = "recv"
    /\ IF Len(chunkChan) > 0
       THEN /\ workers' = SetWorker(r, Worker("fetch", Head(chunkChan).Index,
                                              "none", DurZero))
            /\ wg' = wg
            /\ taken' = taken (+) SetToBag({Head(chunkChan).Index})
       ELSE /\ workers' = SetWorker(r, ExitedWorker)
            /\ wg' = wg - 1
            /\ taken' = taken
    /\ UNCHANGED << fieldVars, statsMu, connMu, dpc, supportsRanges, result,
                    chunks, chunkChan, errChan, errCap, spawnI, sent,
                    failedChunks, refused >>
    /\ UNCHANGED obsVars
    /\ UNCHANGED << fetched, evaluated >>

\* for chunk := range chunkChan: take the next chunk and call downloadChunk
\* (the ranged request goes out), or leave the loop (wg.Done) when the closed
\* queue is empty
Recv(r) ==
    /\ r.pc = "recv"
    /\ IF Len(chunkChan) > 0
       THEN /\ workers' = SetWorker(r, Worker("fetch", Head(chunkChan).Index,
                                              "none", DurZero))
            /\ chunkChan' = Tail(chunkChan)
            /\ wg' = wg
            /\ taken' = taken (+) SetToBag({Head(chunkChan).Index})
       ELSE /\ workers' = SetWorker(r, ExitedWorker)
            /\ wg' = wg - 1
            /\ chunkChan' = chunkChan
            /\ taken' = taken
    /\ UNCHANGED << fieldVars, statsMu, connMu, dpc, supportsRanges, result,
                    chunks, errChan, errCap, spawnI, sent, failedChunks, refused >>
    /\ UNCHANGED obsVars
    /\ UNCHANGED << fetched, evaluated >>

(***************************************************************************)
(* downloadChunk.  What the server and the disk do to one ranged request:  *)
(* whether client.Do got a response, its status, the results (n, e) of the *)
(* successive resp.Body.Read calls (e: nil, EOF or an error), which of the *)
(* WriteAt calls fails (0: none), and the time the fetch takes.            *)
(***************************************************************************)
ReadResults == [n : 0..BufSize, e : {"nil", "EOF", "err"}]

\* the bodies: at most MaxReads reads, the last one ending the stream
Bodies ==
    UNION { { b \in [1..k -> ReadResults] :
                /\ b[k].e # "nil"
                /\ \A i \in 1..(k - 1) : b[i].e = "nil" /\ b[i].n > 0 }
            : k \in 1..MaxReads }

\* the bytes a body delivers
RECURSIVE BodyLen(_)
BodyLen(b) ==
    IF b = << >> THEN 0 ELSE b[Len(b)].n + BodyLen(SubSeq(b, 1, Len(b) - 1))

\* the bodies that come with a refusal: an empty one, or content
RefusalBodies ==
    {<< [n |-> 0, e |-> "EOF"] >>, << [n |-> BufSize, e |-> "EOF"] >>}

\* every exchange: no response, a refusal (full content, or range not
\* satisfiable), or a 206 with any body
AnyExchanges ==
    [reached : {FALSE}, status : {0}, body : {<< >>}, writeFails : {0},
     took : FetchDurations]
      \cup [reached : {TRUE}, status : {StatusOK, 416}, body : RefusalBodies,
            writeFails : {0}, took : FetchDurations]
      \cup [reached : {TRUE}, status : {StatusPartialContent}, body : Bodies,
            writeFails : 0..MaxReads, took : FetchDurations]

\* the exchanges of the clean network for a range of len bytes: a quick
\* refusal, or a quick 206 whose body is the range and ends with EOF
CleanExchanges(len) ==
    { x \in AnyExchanges :
        /\ x.reached
        /\ x.took = Seconds(1)
        /\ x.writeFails = 0
        /\ x.status = StatusPartialContent =>
              (BodyLen(x.body) = len /\ x.body[Len(x.body)].e = "EOF") }

Exchanges(e, len) == IF e = "any" THEN AnyExchanges ELSE CleanExchanges(len)

\* bytes of the range [Start, End] of the chunk with this index
ChunkLen(index) == chunks[index + 1].End - chunks[index + 1].Start + 1

\* a status test that lets a full-content answer through
StatusAcceptedAny2xx(status) == status \in {StatusOK, StatusPartialContent}

\* whether a response status lets downloadChunk read the body
StatusAccepted(status) == status = StatusPartialContent

\* whether the read loop ends the fetch with success on this read error value
ReadEnds(e) == e = "EOF"

\* d.Stats.BytesDownloaded += int64(n)
Counted(old, n) == old + n

\* the read loop from read i on, with `count` bytes written and counted so
\* far and `writes` WriteAt calls made: the error returned ("none": nil) and the
\* bytes added to BytesDownloaded
RECURSIVE ReadLoop(_, _, _, _, _)
ReadLoop(body, writeFails, i, count, writes) ==
    IF i > Len(body)
    THEN [err |-> "read", count |-> count]
    ELSE LET n == body[i].n
             e == body[i].e
             w == IF n > 0 THEN writes + 1 ELSE writes
         IN  IF n > 0 /\ w = writeFails
             THEN [err |-> "write", count |-> count]
             ELSE IF ReadEnds(e)
             THEN [err |-> "none", count |-> count + n]
             ELSE IF e # "nil"
             THEN [err |-> "read", count |-> count + n]
             ELSE ReadLoop(body, writeFails, i + 1, count + n, w)

\* downloadChunk on one exchange: the error returned and the bytes counted
downloadChunk(x) ==
    IF ~x.reached
    THEN [err |-> "request", count |-> 0]
    ELSE IF ~StatusAccepted(x.status)
    THEN [err |-> "status", count |-> 0]
    ELSE ReadLoop(x.body, x.writeFails, 1, 0, 0)

\* what the calls of downloadChunk for a range of len bytes can come to: the
\* error returned, the bytes written and counted, the duration, and whether
\* the request was refused
FetchOutcomes(e, len) ==
    { [err |-> downloadChunk(x).err, count |-> downloadChunk(x).count,
       took |-> x.took,
       refused |-> x.reached /\ x.status # StatusPartialContent]
      : x \in Exchanges(e, len) }

\* a worker that adapts after every chunk
AfterFetchAlways(index) == "calcLock"

\* where a worker goes after downloadChunk returned nil
AfterFetch(index) == IF index % AdaptEvery = 0 THEN "calcLock" ELSE "recv"

\* the controller calls made so far, once the worker of chunk index has passed
\* the periodic test
Called(index) ==
    IF AfterFetch(index) = "calcLock"
    THEN evaluated (+) SetToBag({index})
    ELSE evaluated

\* downloadChunk runs to its return: the bytes are counted, the deferred
\* function appends the fetch's duration; on an error the worker stands at
\* errChan <- err, else at the periodic adaptation or back at the loop head
Fetch(r) ==
    /\ r.pc = "fetch"
    /\ ~statsMu
    /\ \E out \in FetchOutcomes(env, ChunkLen(r.chunk)) :
         /\ BytesDownloaded' = BytesDownloaded + out.count
         /\ written' = written + out.count
         /\ refused' = IF out.refused
                       THEN refused \cup {r.chunk}
                       ELSE refused
         /\ ChunkTimes' = Append(ChunkTimes, out.took)
         /\ IF out.err # "none"
            THEN /\ workers' = SetWorker(r, Worker("sendErr", r.chunk,
                                                   out.err, DurZero))
                 /\ failedChunks' = failedChunks \cup {r.chunk}
                 /\ evaluated' = evaluated
            ELSE /\ workers' = SetWorker(r, Worker(AfterFetch(r.chunk), -1,
                                                   "none", DurZero))
                 /\ failedChunks' = failedChunks
                 /\ evaluated' = Called(r.chunk)
    /\ fetched' = fetched (+) SetToBag({r.chunk})
    /\ requests' = [requests EXCEPT !.ranged = @ + 1]
    /\ UNCHANGED << FileSize, ChunkSize, CurrentConnections, connSeen, env,
                    statsMu, connMu, dpc, supportsRanges, result, chunks,
                    chunkChan, errChan, errCap, spawnI, wg, sent >>
    /\ UNCHANGED << probed, entered, file, reporter, fb >>
    /\ taken' = taken

\* errChan <- fmt.Errorf(...): blocks while the channel is full; then return
\* (wg.Done)
SendErr(r) ==
    /\ r.pc = "sendErr"
    /\ Len(errChan) < errCap
    /\ errChan' = Append(errChan, ChunkError(r.chunk, r.err))
    /\ sent' = Append(sent, ChunkError(r.chunk, r.err))
    /\ workers' = SetWorker(r, ExitedWorker)
    /\ wg' = wg - 1
    /\ UNCHANGED << fieldVars, statsMu, connMu, dpc, supportsRanges, result,
                    chunks, chunkChan, errCap, spawnI, failedChunks,
                    refused >>
    /\ UNCHANGED obsVars
    /\ UNCHANGED histVars

(***************************************************************************)
(* downloadChunk, statement by statement: the request, each Body.Read,     *)
(* each WriteAt, each update of the counter under d.Stats.mu, the deferred *)
(* append.  A worker inside downloadChunk carries the locals of the call:  *)
(* offset, the n and err of the last Read, the number of Reads made, and   *)
(* the value of BytesDownloaded loaded by += (tmp).                        *)
(***************************************************************************)
Fetching(pc, chunk, err, offset, n, e, reads, tmp) ==
    [pc |-> pc, chunk |-> chunk, err |-> err, avg |-> DurZero,
     offset |-> offset, n |-> n, e |-> e, reads |-> reads, tmp |-> tmp]

\* downloadChunk stands at its return with this error: the deferred append
\* is left to run
Returning(chunk, err) == Fetching("append", chunk, err, 0, 0, "nil", 0, 0)

\* the answers to a ranged request: none, a refusal, or 206
Responses(e) ==
    [reached : IF e = "any" THEN BOOLEAN ELSE {TRUE},
     status : {StatusOK, 416, StatusPartialContent}]

\* client.Do and the status test; offset := chunk.Start
Request(r) ==
    /\ r.pc = "fetch"
    /\ \E resp \in Responses(env) :
         /\ workers' = SetWorker(r,
                IF ~resp.reached THEN Returning(r.chunk, "request")
                ELSE IF ~StatusAccepted(resp.status)
                THEN Returning(r.chunk, "status")
                ELSE Fetching("read", r.chunk, "none",
                              chunks[r.chunk + 1].Start, 0, "nil", 0, 0))
         /\ refused' = IF resp.reached /\ resp.status # StatusPartialContent
                       THEN refused \cup {r.chunk}
                       ELSE refused
    /\ requests' = [requests EXCEPT !.ranged = @ + 1]
    /\ UNCHANGED << fieldVars, statsMu, connMu, dpc, supportsRanges, result,
                    chunks, chunkChan, errChan, errCap, spawnI, wg, sent,
                    failedChunks >>
    /\ UNCHANGED << probed, entered, file, reporter, written, fb >>
    /\ UNCHANGED histVars

\* what a Read may return when `delivered` bytes of a range of len bytes have
\* come in `reads` Reads: a body ends within MaxReads Reads; the clean network
\* delivers the range and then EOF
ReadAllowed(e, len, delivered, reads, rd) ==
    /\ rd.n = 0 => rd.e # "nil"
    /\ reads + 1 = MaxReads => rd.e # "nil"
    /\ e = "clean" =>
          /\ rd.e # "err"
          /\ delivered + rd.n <= len
          /\ rd.e = "EOF" => delivered + rd.n = len

\* the end of one turn of the read loop: break on io.EOF, return the read
\* error, or read again
AfterBuffer(r) ==
    IF ReadEnds(r.e) THEN Returning(r.chunk, "none")
    ELSE IF r.e # "nil" THEN Returning(r.chunk, "read")
    ELSE [r EXCEPT !.pc = "read", !.n = 0, !.tmp = 0]

\* n, err := resp.Body.Read(buffer)
Read(r) ==
    /\ r.pc = "read"
    /\ \E rd \in ReadResults :
         /\ ReadAllowed(env, ChunkLen(r.chunk),
                        r.offset - chunks[r.chunk + 1].Start, r.reads, rd)
         /\ workers' = SetWorker(r,
                IF rd.n > 0
                THEN [r EXCEPT !.pc = "write", !.n = rd.n, !.e = rd.e,
                               !.reads = @ + 1]
                ELSE AfterBuffer([r EXCEPT !.e = rd.e, !.reads = @ + 1]))
    /\ UNCHANGED << fieldVars, statsMu, connMu, dpc, supportsRanges, result,
                    chunks, chunkChan, errChan, errCap, spawnI, wg, sent,
                    failedChunks, refused >>
    /\ UNCHANGED obsVars
    /\ UNCHANGED histVars

\* file.WriteAt(buffer[:n], offset); offset += int64(n)
WriteAt(r) ==
    /\ r.pc = "write"
    /\ \E ok \in IF env = "any" THEN BOOLEAN ELSE {TRUE} :
         IF ok
         THEN /\ written' = written + r.n
              /\ workers' = SetWorker(r, [r EXCEPT !.pc = "count",
                                                   !.offset = @ + r.n])
         ELSE /\ written' = written
              /\ workers' = SetWorker(r, Returning(r.chunk, "write"))
    /\ UNCHANGED << fieldVars, statsMu, connMu, dpc, supportsRanges, result,
                    chunks, chunkChan, errChan, errCap, spawnI, wg, sent,
                    failedChunks, refused >>
    /\ UNCHANGED << probed, entered, requests, file, reporter, fb >>
    /\ UNCHANGED histVars

\* the counter read without taking d.Stats.mu
CountLoadNoLock(r) ==
    /\ r.pc = "count"
    /\ workers' = SetWorker(r, [r EXCEPT !.pc = "store", !.tmp = BytesDownloaded])
    /\ UNCHANGED << fieldVars, statsMu, connMu, dpc, supportsRanges, result,
                    chunks, chunkChan, errChan, errCap, spawnI, wg, sent,
                    failedChunks, refused >>
    /\ UNCHANGED obsVars
    /\ UNCHANGED histVars

\* d.Stats.mu.Lock() and the load of d.Stats.BytesDownloaded += int64(n)
CountLoad(r) ==
    /\ r.pc = "count"
    /\ ~statsMu
    /\ statsMu' = TRUE
    /\ workers' = SetWorker(r, [r EXCEPT !.pc = "store", !.tmp = BytesDownloaded])
    /\ UNCHANGED << fieldVars, connMu, dpc, supportsRanges, result, chunks,
                    chunkChan, errChan, errCap, spawnI, wg, sent, failedChunks,
                    refused >>
    /\ UNCHANGED obsVars
    /\ UNCHANGED histVars

\* the store of the += and d.Stats.mu.Unlock(); then the tests of err
CountStore(r) ==
    /\ r.pc = "store"
    /\ BytesDownloaded' = Counted(r.tmp, r.n)
    /\ statsMu' = FALSE
    /\ workers' = SetWorker(r, AfterBuffer(r))
    /\ UNCHANGED << FileSize, ChunkSize, CurrentConnections, ChunkTimes,
                    connSeen, env, connMu, dpc, supportsRanges, result, chunks,
                    chunkChan, errChan, errCap, spawnI, wg, sent, failedChunks,
                    refused >>
    /\ UNCHANGED obsVars
    /\ UNCHANGED histVars

\* the durations a fetch may take on a network
Durations(e) == IF e = "any" THEN FetchDurations ELSE {Seconds(1)}
\* a deferred function that records the duration of successful fetches only
AppendTimeOnSuccessOnly(r) ==
    /\ r.pc = "append"
    /\ ~statsMu
    /\ \E took \in Durations(env) :
         ChunkTimes' = IF r.err # "none"
                       THEN ChunkTimes
                       ELSE Append(ChunkTimes, took)
    /\ IF r.err # "none"
       THEN /\ workers' = SetWorker(r, Worker("sendErr", r.chunk, r.err, DurZero))
            /\ failedChunks' = failedChunks \cup {r.chunk}
            /\ evaluated' = evaluated
       ELSE /\ workers' = SetWorker(r, Worker(AfterFetch(r.chunk), -1, "none",
                                              DurZero))
            /\ failedChunks' = failedChunks
            /\ evaluated' = Called(r.chunk)
    /\ fetched' = fetched (+) SetToBag({r.chunk})
    /\ UNCHANGED << FileSize, ChunkSize, CurrentConnections, BytesDownloaded,
                    connSeen, env, statsMu, connMu, dpc, supportsRanges, result,
                    chunks, chunkChan, errChan, errCap, spawnI, wg, sent,
                    refused >>
    /\ UNCHANGED obsVars
    /\ taken' = taken

\* the deferred function: the duration is appended under d.Stats.mu; the
\* worker is back in its loop with the error downloadChunk returned
AppendTime(r) ==
    /\ r.pc = "append"
    /\ ~statsMu
    /\ \E took \in Durations(env) : ChunkTimes' = Append(ChunkTimes, took)
    /\ IF r.err # "none"
       THEN /\ workers' = SetWorker(r, Worker("sendErr", r.chunk, r.err, DurZero))
            /\ failedChunks' = failedChunks \cup {r.chunk}
            /\ evaluated' = evaluated
       ELSE /\ workers' = SetWorker(r, Worker(AfterFetch(r.chunk), -1, "none",
                                              DurZero))
            /\ failedChunks' = failedChunks
            /\ evaluated' = Called(r.chunk)
    /\ fetched' = fetched (+) SetToBag({r.chunk})
    /\ UNCHANGED << FileSize, ChunkSize, CurrentConnections, BytesDownloaded,
                    connSeen, env, statsMu, connMu, dpc, supportsRanges, result,
                    chunks, chunkChan, errChan, errCap, spawnI, wg, sent,
                    refused >>
    /\ UNCHANGED obsVars
    /\ taken' = taken

(***************************************************************************)
(* calculateOptimalConnections.                                            *)
(***************************************************************************)
\* recent := ChunkTimes[len-3:]
Recent(times) == SubSeq(times, Len(times) - RecentCount + 1, Len(times))

RECURSIVE TotalTime(_)
TotalTime(times) ==
    IF times = << >> THEN DurZero
    ELSE DurAdd(TotalTime(SubSeq(times, 1, Len(times) - 1)), times[Len(times)])

\* avgTime := totalTime / time.Duration(len(recent))
AvgTime(times) == DurDiv(TotalTime(Recent(times)), Len(Recent(times)))

\* the adaptive logic without the test against the maximum
AdaptedNoMax(avg, current) ==
    IF DurLess(avg, Seconds(FastSeconds))
    THEN current + 1
    ELSE IF DurGreater(avg, Seconds(SlowSeconds)) /\ current > MinConnections
    THEN current - 1
    ELSE current

\* the adaptive logic with the fast threshold one second too low
AdaptedLowThreshold(avg, current) ==
    IF DurLess(avg, Seconds(FastSeconds - 1)) /\ current < MaxConnections
    THEN current + 1
    ELSE IF DurGreater(avg, Seconds(SlowSeconds)) /\ current > MinConnections
    THEN current - 1
    ELSE current

\* the adaptive logic with the slow threshold included (avg >= 5 s decrements)
AdaptedSlowInclusive(avg, current) ==
    IF DurLess(avg, Seconds(FastSeconds)) /\ current < MaxConnections
    THEN current + 1
    ELSE IF ~DurLess(avg, Seconds(SlowSeconds)) /\ current > MinConnections
    THEN current - 1
    ELSE current

\* the adaptive logic: the connection count the evaluation leaves
Adapted(avg, current) ==
    IF DurLess(avg, Seconds(FastSeconds)) /\ current < MaxConnections
    THEN current + 1
    ELSE IF DurGreater(avg, Seconds(SlowSeconds)) /\ current > MinConnections
    THEN current - 1
    ELSE current

\* whether the history holds enough samples for an evaluation
EnoughSamples(times) == Len(times) >= RecentCount

\* the average of the samples there are (at most the last three)
AvgOfAvailable(times) ==
    IF times = << >> THEN DurZero
    ELSE IF Len(times) < RecentCount THEN DurDiv(TotalTime(times), Len(times))
    ELSE AvgTime(times)

\* where the caller continues after the evaluation returned: the worker loop,
\* or the direct caller of the controller specification
AfterCalc == IF dpc = "harness" THEN "idle" ELSE "recv"

\* d.Stats.mu.Lock()
CalcLock(r) ==
    /\ r.pc = "calcLock"
    /\ ~statsMu
    /\ statsMu' = TRUE
    /\ workers' = SetWorker(r, [r EXCEPT !.pc = "calcAvg"])
    /\ UNCHANGED << fieldVars, connMu, dpc, supportsRanges, result, chunks,
                    chunkChan, errChan, errCap, spawnI, wg, sent, failedChunks, refused >>
    /\ UNCHANGED obsVars
    /\ UNCHANGED histVars

\* an evaluation without the length test: it averages the samples there are
CalcAvgNoLengthTest(r) ==
    /\ r.pc = "calcAvg"
    /\ ~connMu
    /\ connMu' = TRUE
    /\ statsMu' = statsMu
    /\ workers' = SetWorker(r, [r EXCEPT !.pc = "calcUpdate",
                                         !.avg = AvgOfAvailable(ChunkTimes)])
    /\ UNCHANGED << fieldVars, dpc, supportsRanges, result, chunks, chunkChan,
                    errChan, errCap, spawnI, wg, sent, failedChunks, refused >>
    /\ UNCHANGED obsVars
    /\ UNCHANGED histVars

\* the length test (return, releasing the lock), or the average and d.mu.Lock()
CalcAvg(r) ==
    /\ r.pc = "calcAvg"
    /\ IF ~EnoughSamples(ChunkTimes)
       THEN /\ statsMu' = FALSE
            /\ connMu' = connMu
            /\ workers' = SetWorker(r, Worker(AfterCalc, -1, "none", DurZero))
       ELSE /\ ~connMu
            /\ connMu' = TRUE
            /\ statsMu' = statsMu
            /\ workers' = SetWorker(r, [r EXCEPT !.pc = "calcUpdate",
                                                 !.avg = AvgTime(ChunkTimes)])
    /\ UNCHANGED << fieldVars, dpc, supportsRanges, result, chunks, chunkChan,
                    errChan, errCap, spawnI, wg, sent, failedChunks, refused >>
    /\ UNCHANGED obsVars
    /\ UNCHANGED histVars

\* the adaptive logic, then the deferred unlocks of d.mu and d.Stats.mu
CalcUpdate(r) ==
    /\ r.pc = "calcUpdate"
    /\ CurrentConnections' = Adapted(r.avg, CurrentConnections)
    /\ connSeen' = connSeen \cup {CurrentConnections'}
    /\ connMu' = FALSE
    /\ statsMu' = FALSE
    /\ workers' = SetWorker(r, Worker(AfterCalc, -1, "none", DurZero))
    /\ UNCHANGED << FileSize, ChunkSize, BytesDownloaded, ChunkTimes, env, dpc,
                    supportsRanges, result, chunks, chunkChan, errChan, errCap,
                    spawnI, wg, sent, failedChunks, refused >>
    /\ UNCHANGED obsVars
    /\ UNCHANGED histVars

(***************************************************************************)
(* downloadSingleConnection: the fallback, run by the goroutine of         *)
(* Download itself.                                                        *)
(***************************************************************************)
\* os.Create, client.Get, the status test and go d.reportProgress()
FallbackOpen ==
    /\ dpc = "fallback"
    /\ \E io \in {"ok", "create", "request"}, status \in {StatusOK, 404} :
         IF io = "create"
         THEN /\ result' = Failure(io)
              /\ dpc' = "returned"
              /\ UNCHANGED << file, requests, fb, reporter >>
         ELSE /\ file' = "created"
              /\ requests' = [requests EXCEPT !.whole = @ + 1]
              /\ IF io # "ok"
                 THEN /\ result' = Failure(io)
                      /\ dpc' = "returned"
                      /\ UNCHANGED << fb, reporter >>
                 ELSE /\ fb' = [fb EXCEPT !.status = status]
                      /\ IF status # StatusOK
                         THEN /\ result' = Failure("status")
                              /\ dpc' = "returned"
                              /\ reporter' = reporter
                         ELSE /\ result' = result
                              /\ dpc' = "copy"
                              /\ reporter' = "running"
    /\ UNCHANGED << fieldVars, statsMu, connMu, supportsRanges >>
    /\ UNCHANGED poolVars
    /\ UNCHANGED << probed, entered, written >>
    /\ UNCHANGED histVars

\* a copy loop that takes any end of the stream for its end
StreamEndsAnyError(e) == e # "nil"

\* whether the copy loop ends the transfer with success on this read error
StreamEnds(e) == e = "EOF"

\* one turn of the copy loop
FallbackRead ==
    /\ dpc = "copy"
    /\ \E n \in 0..BufSize, e \in {"nil", "EOF", "err"}, wrote \in BOOLEAN :
         /\ BytesDownloaded + n <= MaxSize(env) + 1
         /\ n = 0 => (e # "nil" /\ wrote)
         /\ n > 0 => ~statsMu
         /\ IF ~wrote
            THEN /\ result' = Failure("write")
                 /\ dpc' = "returned"
                 /\ BytesDownloaded' = BytesDownloaded
                 /\ written' = written
                 /\ fb' = [fb EXCEPT !.received = @ + n, !.writeFailed = TRUE]
            ELSE /\ BytesDownloaded' = Counted(BytesDownloaded, n)
                 /\ written' = written + n
                 /\ fb' = [fb EXCEPT !.received = @ + n,
                                     !.end = IF e = "nil" THEN @ ELSE e]
                 /\ IF StreamEnds(e)
                    THEN /\ result' = Success
                         /\ dpc' = "returned"
                    ELSE IF e # "nil"
                    THEN /\ result' = Failure("read")
                         /\ dpc' = "returned"
                    ELSE /\ result' = result
                         /\ dpc' = dpc
    /\ UNCHANGED << FileSize, ChunkSize, CurrentConnections, ChunkTimes,
                    connSeen, env, statsMu, connMu, supportsRanges >>
    /\ UNCHANGED poolVars
    /\ UNCHANGED << probed, entered, requests, file, reporter >>
    /\ UNCHANGED histVars

(***************************************************************************)
(* reportProgress: the goroutine started by either path.                   *)
(***************************************************************************)
\* the test that ends the reporter
ReporterDone(size, downloaded) == size > 0 /\ downloaded >= size

\* case <-ticker.C: read the counter under d.Stats.mu; return, or print a
\* progress line (which changes nothing here) and wait for the next tick
Tick ==
    /\ reporter = "running"
    /\ ~statsMu
    /\ reporter' = IF ReporterDone(FileSize, BytesDownloaded)
                   THEN "exited"
                   ELSE reporter
    /\ UNCHANGED << fieldVars, statsMu, connMu, dpc, supportsRanges, result >>
    /\ UNCHANGED poolVars
    /\ UNCHANGED << probed, entered, requests, file, written, fb >>
    /\ UNCHANGED histVars

(***************************************************************************)
(* The transfer: Download, run once on a fresh downloader.                 *)
(***************************************************************************)
Next ==
    \/ Probe
    \/ Tick
    \/ FallbackOpen
    \/ FallbackRead
    \/ CreateFile
    \/ Spawn
    \/ WaitReturn
    \/ \E r \in WorkerStates : Recv(r)
    \/ \E r \in WorkerStates : Fetch(r)
    \/ \E r \in WorkerStates : SendErr(r)
    \/ \E r \in WorkerStates : CalcLock(r)
    \/ \E r \in WorkerStates : CalcAvg(r)
    \/ \E r \in WorkerStates : CalcUpdate(r)

Spec == Init /\ [][Next]_vars

\* every HTTP request and file write returns and the goroutines are scheduled:
\* a step that can be taken is eventually taken
FairSpec == Spec /\ WF_vars(Next)

(***************************************************************************)
(* The chunk planner alone: the range path of Download entered with any    *)
(* total size and any segment length, up to the queueing of the chunks;    *)
(* the transfer of an empty file runs on to its return.                    *)
(***************************************************************************)
InitPlan ==
    /\ env = "clean"
    /\ FileSize \in 0..MaxPlanSize
    /\ ChunkSize \in 1..MaxPlanChunk
    /\ CurrentConnections = StartConnections
    /\ BytesDownloaded = 0
    /\ ChunkTimes = << >>
    /\ statsMu = FALSE
    /\ connMu = FALSE
    /\ dpc = "create"
    /\ supportsRanges = TRUE
    /\ result = NoResult
    /\ chunks = << >>
    /\ chunkChan = << >>
    /\ errChan = << >>
    /\ errCap = 0
    /\ spawnI = 0
    /\ wg = 0
    /\ workers = EmptyBag
    /\ connSeen = {StartConnections}
    /\ sent = << >>
    /\ failedChunks = {}
    /\ refused = {}
    /\ probed = [reached |-> TRUE, status |-> StatusOK,
                 contentLength |-> [kind |-> "number", n |-> FileSize],
                 acceptRanges |-> "bytes"]
    /\ entered = {"range"}
    /\ requests = [NoRequests EXCEPT !.head = 1]
    /\ file = "absent"
    /\ reporter = "none"
    /\ written = 0
    /\ fb = NoStream
    /\ taken = EmptyBag
    /\ fetched = EmptyBag
    /\ evaluated = EmptyBag

\* the planner, and the rest of the transfer when the file is empty
NextPlan ==
    \/ CreateFile
    \/ FileSize = 0 /\ Spawn
    \/ FileSize = 0 /\ Tick
    \/ FileSize = 0 /\ WaitReturn
    \/ FileSize = 0 /\ \E r \in WorkerStates : Recv(r)

SpecPlan == InitPlan /\ [][NextPlan]_vars

(***************************************************************************)
(* The segment fetcher statement by statement: the range path of Download  *)
(* entered on a downloader set to the minimum number of connections, for   *)
(* files of at most MaxFetchSize segments (MaxFullSize on the network      *)
(* where anything may happen).                                             *)
(***************************************************************************)
MaxFetched(e) == IF e = "any" THEN MaxFullSize ELSE MaxFetchSize

InitFetch ==
    /\ env \in Environments
    /\ FileSize \in 1..MaxFetched(env)
    /\ ChunkSize = DefaultChunkSize
    /\ CurrentConnections = MinConnections
    /\ BytesDownloaded = 0
    /\ ChunkTimes = << >>
    /\ statsMu = FALSE
    /\ connMu = FALSE
    /\ dpc = "create"
    /\ supportsRanges = TRUE
    /\ result = NoResult
    /\ chunks = << >>
    /\ chunkChan = << >>
    /\ errChan = << >>
    /\ errCap = 0
    /\ spawnI = 0
    /\ wg = 0
    /\ workers = EmptyBag
    /\ connSeen = {MinConnections}
    /\ sent = << >>
    /\ failedChunks = {}
    /\ refused = {}
    /\ probed = [reached |-> TRUE, status |-> StatusOK,
                 contentLength |-> [kind |-> "number", n |-> FileSize],
                 acceptRanges |-> "bytes"]
    /\ entered = {"range"}
    /\ requests = [NoRequests EXCEPT !.head = 1]
    /\ file = "absent"
    /\ reporter = "none"
    /\ written = 0
    /\ fb = NoStream
    /\ taken = EmptyBag
    /\ fetched = EmptyBag
    /\ evaluated = EmptyBag

NextFetch ==
    \/ CreateFile
    \/ Spawn
    \/ WaitReturn
    \/ Tick
    \/ \E r \in WorkerStates : Recv(r)
    \/ \E r \in WorkerStates : Request(r)
    \/ \E r \in WorkerStates : Read(r)
    \/ \E r \in WorkerStates : WriteAt(r)
    \/ \E r \in WorkerStates : CountLoad(r)
    \/ \E r \in WorkerStates : CountStore(r)
    \/ \E r \in WorkerStates : AppendTime(r)
    \/ \E r \in WorkerStates : SendErr(r)
    \/ \E r \in WorkerStates : CalcLock(r)
    \/ \E r \in WorkerStates : CalcAvg(r)
    \/ \E r \in WorkerStates : CalcUpdate(r)

SpecFetch == InitFetch /\ [][NextFetch]_vars

(***************************************************************************)
(* The controller alone: calculateOptimalConnections called directly, as   *)
(* TestCalculateOptimalConnections does, by CtlWorkers concurrent callers  *)
(* on a downloader with any connection count in [min, max] and any         *)
(* history of at most MaxHistory samples.                                  *)
(***************************************************************************)
\* sample durations around the two thresholds
CtlDurations ==
    {Seconds(1), Dur(1, NanosPerSecond - 1), Seconds(FastSeconds),
     Seconds(SlowSeconds), Dur(SlowSeconds, 1), Seconds(8)}

Histories == UNION {[1..k -> CtlDurations] : k \in 0..RecentCount}

IdleWorker == Worker("idle", -1, "none", DurZero)

InitCtl ==
    /\ env = "clean"
    /\ FileSize = 0
    /\ ChunkSize = DefaultChunkSize
    /\ CurrentConnections \in MinConnections..MaxConnections
    /\ BytesDownloaded = 0
    /\ ChunkTimes \in Histories
    /\ statsMu = FALSE
    /\ connMu = FALSE
    /\ dpc = "harness"
    /\ supportsRanges = FALSE
    /\ result = NoResult
    /\ chunks = << >>
    /\ chunkChan = << >>
    /\ errChan = << >>
    /\ errCap = 0
    /\ spawnI = 0
    /\ wg = 0
    /\ workers = [r \in {IdleWorker} |-> CtlWorkers]
    /\ connSeen = {CurrentConnections}
    /\ sent = << >>
    /\ failedChunks = {}
    /\ refused = {}
    /\ probed = NoResponse
    /\ entered = {}
    /\ requests = NoRequests
    /\ file = "absent"
    /\ reporter = "none"
    /\ written = 0
    /\ fb = NoStream
    /\ taken = EmptyBag
    /\ fetched = EmptyBag
    /\ evaluated = EmptyBag

\* a caller enters calculateOptimalConnections
CtlCall(r) ==
    /\ dpc = "harness"
    /\ r.pc = "idle"
    /\ workers' = SetWorker(r, [r EXCEPT !.pc = "calcLock"])
    /\ UNCHANGED << fieldVars, statsMu, connMu, dpc, supportsRanges, result,
                    chunks, chunkChan, errChan, errCap, spawnI, wg, sent,
                    failedChunks, refused >>
    /\ UNCHANGED obsVars
    /\ UNCHANGED histVars

\* a segment fetch ends meanwhile: the deferred append of downloadChunk
CtlAppend ==
    /\ dpc = "harness"
    /\ ~statsMu
    /\ Len(ChunkTimes) < MaxHistory
    /\ \E d \in CtlDurations : ChunkTimes' = Append(ChunkTimes, d)
    /\ UNCHANGED << FileSize, ChunkSize, CurrentConnections, BytesDownloaded,
                    connSeen, env, statsMu, connMu, dpc, supportsRanges, result >>
    /\ UNCHANGED poolVars
    /\ UNCHANGED obsVars
    /\ UNCHANGED histVars

NextCtl ==
    \/ CtlAppend
    \/ \E r \in WorkerStates : CtlCall(r)
    \/ \E r \in WorkerStates : CalcLock(r)
    \/ \E r \in WorkerStates : CalcAvg(r)
    \/ \E r \in WorkerStates : CalcUpdate(r)

SpecCtl == InitCtl /\ [][NextCtl]_vars

(***************************************************************************)
(* Properties.                                                             *)
(***************************************************************************)
Returned == dpc = "returned"

\* the planned chunks are queued (the range path is past the planner)
Planned == dpc \in {"spawn", "wait"} \/ (Returned /\ errCap > 0)

ChunkBytes(c) == c.Start..c.End

\* C1: for every total size S >= 0 and segment length L > 0 the planned
\* segments are ordered by increasing start, the first starts at 0, each next
\* one starts at the previous end + 1, the last ends at S - 1, every segment
\* has length L except possibly the last (shorter, never longer, never empty),
\* and their union is exactly [0, S) with no overlap.
C1_PlanCoversExactly ==
    Planned =>
        LET n == Len(chunks)
        IN  /\ FileSize = 0 => n = 0
            /\ n > 0 => chunks[1].Start = 0 /\ chunks[n].End = FileSize - 1
            /\ \A i \in 1..(n - 1) :
                 /\ chunks[i + 1].Start = chunks[i].End + 1
                 /\ chunks[i].Start < chunks[i + 1].Start
                 /\ chunks[i].End - chunks[i].Start + 1 = ChunkSize
            /\ n > 0 => /\ chunks[n].End - chunks[n].Start + 1 >= 1
                        /\ chunks[n].End - chunks[n].Start + 1 <= ChunkSize
            /\ UNION {ChunkBytes(chunks[i]) : i \in 1..n} = 0..(FileSize - 1)
            /\ \A i, j \in 1..n :
                 i # j => ChunkBytes(chunks[i]) \cap ChunkBytes(chunks[j]) = {}

\* a plan of several segments whose last one is shorter than the others
C1_Witness ==
    /\ Planned
    /\ Len(chunks) >= 3
    /\ FileSize % ChunkSize # 0
    /\ chunks[Len(chunks)].End - chunks[Len(chunks)].Start + 1 < ChunkSize

\* C2: if a ranged fetch was answered with a status other than 206, or a
\* segment fetch returned an error in any other way, then Download, when it
\* returns, returns an error - whatever the other segments did.
C2_FetchErrorFailsTransfer ==
    (Returned /\ (refused # {} \/ failedChunks # {})) => result.status = "error"

\* a transfer that returned with a refused segment and a delivered one
C2_Witness ==
    /\ Returned
    /\ refused # {}
    /\ Len(chunks) > Cardinality(failedChunks)
    /\ BytesDownloaded > 0
    /\ result.status = "error"

\* C3: whenever Download returns success on the range path, the
\* bytes-completed counter equals the probed total size.
C3_SuccessMeansAllBytes ==
    (Returned /\ supportsRanges /\ result.status = "ok")
        => BytesDownloaded = FileSize

\* C4: once a segment failure has been reported (an error is in the error
\* channel), no worker takes another segment from the queue.
C4_NoDispatchAfterFailure ==
    [][Len(sent) > 0 => chunkChan' = chunkChan]_vars

\* C5: when Download returns after a failure, the error it returns is the
\* first error that was sent on the error channel.
C5_FirstErrorWins ==
    (Returned /\ Len(sent) > 0) => result = sent[1]

\* a transfer in which several workers failed, returned with the first error
C5_Witness ==
    /\ Returned
    /\ Len(sent) >= 2
    /\ sent[1] # sent[Len(sent)]
    /\ result = sent[1]

\* C6: every run of Download eventually returns (success or an error), the
\* requests returning and the workers being scheduled.
C6_DownloadTerminates == <>Returned

\* a controller evaluation ends in this step: calculateOptimalConnections
\* returns, releasing d.Stats.mu
EvaluationEnds == statsMu /\ ~statsMu'

\* the last three samples exist and their sum is below / above k seconds
\* (their arithmetic mean is below / above k/3 seconds)
RecentSumBelow(k) ==
    /\ Len(ChunkTimes) >= RecentCount
    /\ DurLess(TotalTime(Recent(ChunkTimes)), Seconds(k))

RecentSumAbove(k) ==
    /\ Len(ChunkTimes) >= RecentCount
    /\ DurGreater(TotalTime(Recent(ChunkTimes)), Seconds(k))

\* C7: the current worker count is within [minimum, maximum] = [2, 16] in
\* every state, and no step (so no controller evaluation) changes it by more
\* than 1.
C7_CountStaysInRange ==
    /\ [](CurrentConnections \in MinConnections..MaxConnections)
    /\ [][/\ CurrentConnections' - CurrentConnections \in {-1, 0, 1}
          /\ (CurrentConnections' # CurrentConnections => EvaluationEnds)]_vars

\* the count stands at the maximum after having been raised to it, with the
\* last three samples still fast
C7_Witness ==
    /\ dpc = "harness"
    /\ CurrentConnections = MaxConnections
    /\ (MaxConnections - 1) \in connSeen
    /\ RecentSumBelow(RecentCount * FastSeconds)

\* C8: when the arithmetic mean of the last three durations is strictly
\* greater than 5 seconds (their sum exceeds 15 seconds) and the count is
\* above the minimum, one evaluation decreases the count by exactly 1.
C8_SlowMeanDecrements ==
    [][(/\ EvaluationEnds
        /\ RecentSumAbove(RecentCount * SlowSeconds)
        /\ CurrentConnections > MinConnections)
          => CurrentConnections' = CurrentConnections - 1]_vars

\* C9: when the arithmetic mean of the last three durations is strictly less
\* than 2 seconds (their sum is below 6 seconds) and the count is below the
\* maximum, one evaluation increases the count by exactly 1.
C9_FastMeanIncrements ==
    [][(/\ EvaluationEnds
        /\ RecentSumBelow(RecentCount * FastSeconds)
        /\ CurrentConnections < MaxConnections)
          => CurrentConnections' = CurrentConnections + 1]_vars

\* an evaluation raised the count on samples whose mean is just below 2 s
C9_Witness ==
    /\ dpc = "harness"
    /\ Len(ChunkTimes) >= RecentCount
    /\ Recent(ChunkTimes) = << Seconds(FastSeconds), Seconds(FastSeconds),
                               Dur(1, NanosPerSecond - 1) >>
    /\ Cardinality(connSeen) = 2
    /\ CurrentConnections - 1 \in connSeen
    /\ ~statsMu

\* C10: with fewer than 3 samples in the history (0, 1 or 2), an evaluation
\* leaves the count unchanged, whatever the samples are.
C10_FewSamplesNoChange ==
    [][(EvaluationEnds /\ Len(ChunkTimes) < RecentCount)
          => CurrentConnections' = CurrentConnections]_vars

\* an evaluation holds d.Stats.mu at the length test, on a history of two
\* samples, while another caller waits for the lock
C10_Witness ==
    /\ dpc = "harness"
    /\ Len(ChunkTimes) = 2
    /\ statsMu
    /\ \E r \in WorkerStates : r.pc = "calcAvg"
    /\ \E r \in WorkerStates : r.pc = "calcLock"

\* the last three samples exist and their sum is within [lo, hi] seconds
\* (their arithmetic mean is within [lo/3, hi/3] seconds, bounds included)
RecentSumWithin(lo, hi) ==
    /\ Len(ChunkTimes) >= RecentCount
    /\ ~DurLess(TotalTime(Recent(ChunkTimes)), Seconds(lo))
    /\ ~DurGreater(TotalTime(Recent(ChunkTimes)), Seconds(hi))

\* C11: an evaluation leaves the count unchanged when the mean of the last
\* three durations lies in [2 s, 5 s], bounds included (their sum in
\* [6 s, 15 s]), when the mean is under 2 s but the count is at the maximum,
\* and when the mean is over 5 s but the count is at the minimum.
C11_OtherwiseUnchanged ==
    [][(/\ EvaluationEnds
        /\ \/ RecentSumWithin(RecentCount * FastSeconds, RecentCount * SlowSeconds)
           \/ (RecentSumBelow(RecentCount * FastSeconds)
                  /\ CurrentConnections = MaxConnections)
           \/ (RecentSumAbove(RecentCount * SlowSeconds)
                  /\ CurrentConnections = MinConnections))
          => CurrentConnections' = CurrentConnections]_vars

\* an evaluation stands at the adaptive logic with a mean of exactly 5 s and
\* a count it could lower
C11_Witness ==
    /\ dpc = "harness"
    /\ CurrentConnections > MinConnections
    /\ RecentSumWithin(RecentCount * SlowSeconds, RecentCount * SlowSeconds)
    /\ \E r \in WorkerStates : r.pc = "calcUpdate" /\ r.avg = Seconds(SlowSeconds)

\* the bytes of the buffers written to the file and not yet counted: those of
\* the workers between WriteAt and the end of the counter update
RECURSIVE SumUncounted(_)
SumUncounted(S) ==
    IF S = {} THEN 0
    ELSE LET r == CHOOSE x \in S : TRUE
         IN  (IF r.pc \in {"count", "store"}
              THEN r.n * CopiesIn(r, workers)
              ELSE 0) + SumUncounted(S \ {r})

UncountedBytes == SumUncounted(WorkerStates)

\* every planned segment has been fetched without error, on the network that
\* delivers each range whole
AllSegmentsFull ==
    /\ env = "clean"
    /\ Planned
    /\ Len(chunks) > 0
    /\ Len(ChunkTimes) = Len(chunks)
    /\ failedChunks = {}

\* C12 as stated: in every reachable state of a range-based transfer the
\* bytes-completed counter equals the number of body bytes written to the file
\* so far by all workers; once all segments have completed with full bodies it
\* equals the total size.
C12_CounterEqualsWritten ==
    /\ BytesDownloaded = written
    /\ AllSegmentsFull => BytesDownloaded = FileSize

\* C12, amended: in every reachable state of a range-based transfer, under
\* any interleaving of workers, the bytes-completed counter equals the body
\* bytes written to the file so far minus the buffers written and not yet
\* counted (so it never exceeds the bytes written, and equals them whenever no
\* worker stands between a write and its counter update); it never
\* decreases; once all segments have completed with full bodies it equals the
\* total size exactly.
C12_CounterTracksWritten ==
    /\ [](/\ BytesDownloaded + UncountedBytes = written
          /\ BytesDownloaded <= written
          /\ UncountedBytes = 0 => BytesDownloaded = written
          /\ AllSegmentsFull => BytesDownloaded = FileSize)
    /\ [][BytesDownloaded' >= BytesDownloaded]_vars

\* a transfer of MaxFetchSize segments fetched whole by several workers has
\* returned with the counter at the total size
C12_Witness ==
    /\ Returned
    /\ AllSegmentsFull
    /\ FileSize = MaxFetchSize
    /\ BagCardinality(workers) >= MinConnections
    /\ result = Success
    /\ BytesDownloaded = FileSize
    /\ written = FileSize

\* C13: whatever body a 206 response delivers, every positioned write of a
\* segment fetch lies inside the segment's own [Start, End] (hence no offset
\* is written by two segment fetches, and nothing is written past the total
\* size).
C13_WritesInsideOwnRange ==
    \A r \in WorkerStates :
        r.pc = "write" =>
            /\ chunks[r.chunk + 1].Start <= r.offset
            /\ r.offset + r.n - 1 <= chunks[r.chunk + 1].End
            /\ r.offset + r.n <= FileSize

\* the HEAD probe has been answered
Probed == requests.head > 0

\* the probe got status 200 and a Content-Length that is a number
NumberedOK ==
    /\ probed.reached
    /\ probed.status = StatusOK
    /\ probed.contentLength.kind = "number"

\* getFileSize returned no error
ProbeSucceeded ==
    /\ Probed
    /\ probed.reached
    /\ probed.status = StatusOK
    /\ probed.contentLength.kind # "bad"

\* the server was not reached, or answered with a status other than 200
ProbeFailed == Probed /\ (~probed.reached \/ probed.status # StatusOK)

\* C14: the probe reports range-fetch supported if and only if the response
\* has status 200, carries a Content-Length (a number) and its Accept-Ranges
\* header is exactly "bytes"; whenever a 200 response carries a Content-Length
\* the recorded size is that value.
C14_ProbeDescriptor ==
    Probed =>
        /\ supportsRanges <=> (NumberedOK /\ probed.acceptRanges = "bytes")
        /\ NumberedOK => FileSize = probed.contentLength.n

\* a probe answered 200 with a length and Accept-Ranges: bytes, reported as
\* {size, ranges = true}
C14_Witness ==
    /\ Probed
    /\ NumberedOK
    /\ probed.acceptRanges = "bytes"
    /\ probed.contentLength.n = MaxFullSize
    /\ FileSize = MaxFullSize
    /\ supportsRanges

\* C15: after a successful probe exactly one of the two paths runs; the
\* fallback runs if and only if the probe reported ranges unsupported or the
\* size unknown (a missing Content-Length forces ranges = false, whatever
\* Accept-Ranges says); the range path is never entered with size -1, and no
\* ranged request is issued on the fallback path.
C15_PathSelection ==
    /\ ProbeSucceeded =>
          /\ Cardinality(entered) = 1
          /\ "fallback" \in entered <=> (~supportsRanges \/ FileSize = -1)
          /\ probed.contentLength.kind = "absent" =>
                (~supportsRanges /\ FileSize = -1 /\ entered = {"fallback"})
    /\ (dpc \in {"create", "spawn", "wait"} \/ requests.ranged > 0
           \/ workers # EmptyBag \/ file = "sized")
          => entered = {"range"}
    /\ (dpc \in {"fallback", "copy"} \/ requests.whole > 0) => entered = {"fallback"}
    /\ "range" \in entered =>
          (FileSize >= 0 /\ requests.whole = 0 /\ fb = NoStream)
    /\ "fallback" \in entered =>
          (requests.ranged = 0 /\ workers = EmptyBag /\ chunks = << >>)

\* a server that advertises Accept-Ranges: bytes without a Content-Length,
\* served by the fallback to the end
C15_Witness ==
    /\ Returned
    /\ probed.status = StatusOK
    /\ probed.contentLength.kind = "absent"
    /\ probed.acceptRanges = "bytes"
    /\ entered = {"fallback"}
    /\ requests.whole = 1
    /\ result = Success
    /\ BytesDownloaded > 0

\* C16: a probe failure (server unreachable, or status not 200) is fatal with
\* no retry: Download has returned an error after exactly one probe request,
\* the output file neither created nor truncated, no GET request issued, no
\* worker and no reporter started.
C16_ProbeFailureFatal ==
    ProbeFailed =>
        /\ Returned
        /\ result.status = "error"
        /\ requests = [NoRequests EXCEPT !.head = 1]
        /\ file = "absent"
        /\ entered = {}
        /\ workers = EmptyBag
        /\ wg = 0
        /\ reporter = "none"

\* a 404 to the probe, on a response that otherwise offers ranges
C16_Witness ==
    /\ ProbeFailed
    /\ probed.reached
    /\ probed.status = 404
    /\ probed.contentLength = [kind |-> "number", n |-> MaxFullSize]
    /\ probed.acceptRanges = "bytes"
    /\ result = Failure("status")

\* C17: after Download has returned, on every path, the progress reporter
\* eventually stops ticking: it is not left running for ever.
C17_ReporterStops == Returned ~> (reporter # "running")

\* C18: on the fallback path Download returns success if and only if the
\* whole-body GET was answered 200 and its body was read to end-of-stream with
\* every write succeeding (any other status, a read error or a write error is
\* fatal); on success the bytes-completed counter equals the bytes received,
\* whatever size the probe advertised.
C18_FallbackAllOrError ==
    (Returned /\ entered = {"fallback"}) =>
        /\ result = Success <=>
              (fb.status = StatusOK /\ fb.end = "EOF" /\ ~fb.writeFailed)
        /\ result # Success => result.status = "error"
        /\ result = Success =>
              (BytesDownloaded = fb.received /\ written = fb.received)

\* a fallback transfer that succeeded with more bytes than the probe advertised
C18_Witness ==
    /\ Returned
    /\ entered = {"fallback"}
    /\ result = Success
    /\ FileSize > 0
    /\ fb.received > FileSize
    /\ BytesDownloaded = fb.received

\* C19: for every total size S >= 0 and segment length L > 0 the planner
\* produces exactly ceil(S/L) segments with sequence indices 0, 1, ... in
\* planned order; for S = 0 the plan is empty, no ranged request is issued and
\* Download, when it returns, returns success.
C19_PlanCountAndIndices ==
    Planned =>
        /\ Len(chunks) = (FileSize + ChunkSize - 1) \div ChunkSize
        /\ \A i \in 1..Len(chunks) : chunks[i].Index = i - 1
        /\ FileSize = 0 =>
              /\ chunks = << >>
              /\ requests.ranged = 0
              /\ Returned => result = Success

\* the transfer of an empty file has returned, its workers started and gone
C19_Witness ==
    /\ Planned
    /\ FileSize = 0
    /\ Returned
    /\ result = Success
    /\ BagCardinality(workers) = StartConnections
    /\ requests.ranged = 0

\* C20: the pool is fixed-size: never more workers than the setting at pool
\* creation (the starting value 4), and once the spawning loop has ended
\* exactly that many were started, whatever the controller did to the setting
\* meanwhile.
C20_PoolFixedSize ==
    /\ BagCardinality(workers) <= StartConnections
    /\ (Planned /\ dpc # "spawn") => BagCardinality(workers) = StartConnections

\* a controller evaluation holds d.mu and is about to write a new count
WritePending ==
    \E r \in WorkerStates :
        r.pc = "calcUpdate" /\ Adapted(r.avg, CurrentConnections) # CurrentConnections

\* C21: every access to the current worker count made while workers may run
\* is guarded: no state is reachable in which the spawning loop, which reads
\* the count in its condition without holding d.mu, stands at that read while
\* a controller evaluation is writing the count.
C21_NoUnguardedRace == ~(dpc = "spawn" /\ WritePending)

\* C25: the duration history is a bounded most-recent-N sequence: its length
\* never exceeds a fixed N (the 3 samples the controller reads), however many
\* segments the file has.
C25_HistoryBounded == Len(ChunkTimes) <= RecentCount

\* C26: a failing worker never blocks when reporting its error: the errors
\* sent never exceed the capacity of the error channel, and no worker stands
\* at the send with the channel full.
C26_ErrorSendNeverBlocks ==
    /\ Len(sent) <= errCap
    /\ \A r \in WorkerStates : r.pc = "sendErr" => Len(errChan) < errCap

\* the planned indices
Indices == 0 .. (Len(chunks) - 1)

\* the number of workers that hold chunk i
Owners(i) ==
    LET S == {r \in WorkerStates : r.chunk = i}
    IN  BagCardinality([r \in S |-> CopiesIn(r, workers)])

\* the number of workers inside downloadChunk for chunk i
InFlight(i) ==
    LET S == {r \in WorkerStates : r.chunk = i /\ r.pc # "sendErr"}
    IN  BagCardinality([r \in S |-> CopiesIn(r, workers)])

\* C22: under every interleaving each planned segment is received from the
\* queue by at most one worker and fetched at most once (no retry, no second
\* owner), and only planned segments are; when Download returns success,
\* every planned segment was fetched exactly once and answered with 206.
C22_EachSegmentOnce ==
    /\ BagToSet(taken) \subseteq Indices
    /\ BagToSet(fetched) \subseteq BagToSet(taken)
    /\ \A i \in Indices :
          /\ CopiesIn(i, taken) <= 1
          /\ Owners(i) <= 1
          /\ CopiesIn(i, taken) = CopiesIn(i, fetched) + InFlight(i)
    /\ requests.ranged <= Len(chunks)
    /\ (Planned /\ Returned /\ result = Success) =>
          /\ \A i \in Indices : CopiesIn(i, fetched) = 1
          /\ requests.ranged = Len(chunks)
          /\ refused = {}
          /\ failedChunks = {}

\* a successful transfer of more segments than the pool has workers
C22_Witness ==
    /\ Planned /\ Returned /\ result = Success
    /\ Len(chunks) > BagCardinality(workers)
    /\ BagCardinality(fetched) = Len(chunks)

\* the planned indices whose downloadChunk returned nil
Completed == BagToSet(fetched) \ failedChunks

\* the workers inside calculateOptimalConnections
Evaluating ==
    LET S == {r \in WorkerStates : r.pc \in {"calcLock", "calcAvg", "calcUpdate"}}
    IN  BagCardinality([r \in S |-> CopiesIn(r, workers)])

\* C23: the controller is evaluated after a segment completes exactly when
\* the segment's planned index is a multiple of 5: once for each such
\* completed segment, never after a segment of another index or a failed one;
\* when all n segments have completed, ceil(n/5) evaluations were made.
C23_EvaluatedEveryFifth ==
    /\ BagToSet(evaluated) = {i \in Completed : i % AdaptEvery = 0}
    /\ \A i \in BagToSet(evaluated) : CopiesIn(i, evaluated) = 1
    /\ Evaluating <= BagCardinality(evaluated)
    /\ (Planned /\ Completed = Indices) =>
          BagCardinality(evaluated) = (Len(chunks) + AdaptEvery - 1) \div AdaptEvery

\* six segments have completed and the controller was evaluated after the
\* segments 0 and 5
C23_Witness ==
    /\ Planned /\ Returned /\ result = Success
    /\ Len(chunks) > AdaptEvery
    /\ BagToSet(evaluated) = {0, AdaptEvery}

\* the workers inside downloadChunk
InsideFetch ==
    LET S == {r \in WorkerStates :
                r.pc \in {"fetch", "read", "write", "count", "store", "append"}}
    IN  BagCardinality([r \in S |-> CopiesIn(r, workers)])

\* C24: every segment fetch appends exactly one duration to the history
\* before it returns, whether it succeeds or fails: the length of the history
\* is the number of fetches that have returned (the chunks received less the
\* fetches still running), and the history only grows at its end, by one
\* entry each time a fetch returns.
C24_OneDurationPerFetch ==
    /\ [](/\ Len(ChunkTimes) = BagCardinality(fetched)
          /\ BagCardinality(taken) = Len(ChunkTimes) + InsideFetch)
    /\ [][\/ ChunkTimes' = ChunkTimes /\ fetched' = fetched
          \/ /\ Len(ChunkTimes') = Len(ChunkTimes) + 1
             /\ SubSeq(ChunkTimes', 1, Len(ChunkTimes)) = ChunkTimes
             /\ BagCardinality(fetched') = BagCardinality(fetched) + 1
             /\ InsideFetch' = InsideFetch - 1]_vars

\* a failed fetch and a successful one have both returned
C24_Witness ==
    /\ failedChunks # {}
    /\ Completed # {}
    /\ Len(ChunkTimes) = BagCardinality(fetched)
    /\ Len(ChunkTimes) >= 2

\* C27: on the range path Download returns (and its deferred file.Close runs)
\* only after every started worker has exited: at the return no fetch is in
\* flight and no lock is held, and after it no request is issued, no byte is
\* written, and neither the counter nor the history changes, whether Download
\* returns nil or an error.
C27_ReturnsAfterWorkersExit ==
    /\ [](Returned =>
            /\ \A r \in WorkerStates : r.pc = "done"
            /\ wg = 0
            /\ InsideFetch = 0
            /\ ~statsMu /\ ~connMu
            /\ BagCardinality(workers) = spawnI)
    /\ [][Returned =>
            /\ BytesDownloaded' = BytesDownloaded
            /\ ChunkTimes' = ChunkTimes
            /\ written' = written
            /\ requests' = requests
            /\ file' = file
            /\ CurrentConnections' = CurrentConnections]_vars

\* Download returned the error of a failed chunk after bytes of other
\* chunks were written by a pool of at least two workers
C27_Witness ==
    /\ Returned
    /\ result.status = "error" /\ result.chunk >= 0
    /\ BagCardinality(workers) >= 2
    /\ written > 0
    /\ Len(ChunkTimes) >= 2

=============================================================================
